---- MODULE Spec2Model ----
(***************************************************************************)
(* Site percolation engine of SitePercolation.cc: a per-node activation    *)
(* vector, the threshold current_p, and two union-find structures (uf over *)
(* the numNodos lattice nodes, uf_aux over numNodos + 2 elements, the last *)
(* two being the virtual terminals superTop and superBottom).              *)
(*                                                                         *)
(* Thresholds and weights are doubles in the program, and doubles here: a  *)
(* double is the exact count of units of 2^-56 it stands for, written as   *)
(* three limbs, and p += step is IEEE-754 addition (round to nearest, ties *)
(* to even).  Every double in [2^-4, 2) and 0.0 has such a count.          *)
(*                                                                         *)
(* The class UnionFind (unite, find, get_size, Ncc) lives in its own file, *)
(* which is not among the sources modelled here; its operators below       *)
(* follow section 4.1 of the specification.                                *)
(*                                                                         *)
(* One run uses one edge list and one weight vector, chosen in Init.  A    *)
(* run either drives the engine directly (initialize_supernodes, then      *)
(* generate_single_percolation with any thresholds) or runs one            *)
(* generate_full_percolation on the fresh engine.                          *)
(*                                                                         *)
(* Specifications:                                                         *)
(*   Spec         every lattice of up to MaxN nodes with up to MaxEdges    *)
(*                edges and weights on the halves, driven either way;      *)
(*   SpecCalls    the direct calls of Spec on shorter edge lists, with the *)
(*                reference run kept alongside;                            *)
(*   SpecLattice  sweeps of the four-node lattice with weights and steps   *)
(*                that are not dyadic (0.1, 0.2, ...), with and without    *)
(*                the visualization output;                                *)
(*   SpecDeep     a lattice large enough for uf_aux to hold a chain of two *)
(*                links above a terminal, driven directly, has_percolation *)
(*                included;                                                *)
(*   SpecDsu      one UnionFind under arbitrary unite and find calls.      *)
(***************************************************************************)
EXTENDS Integers, Sequences, FiniteSets

\* ------------------------------------------------------------------ bounds
\* Largest number of lattice nodes.
MaxN == 3
\* Largest number of edges in the supplied edge list.
MaxEdges == 3
\* Thresholds offered to the engine are the halves 0/2 .. Scale/2, weights
\* the halves 0/2 .. (Scale-1)/2.
Scale == 2

VARIABLES
    numNodos,       \* number of lattice nodes (fixed at construction)
    aristas,        \* the supplied edge list (fixed for the run)
    configuracion,  \* the supplied weight vector (fixed for the run)
    uf,             \* primary union-find: [parent, size] over 0..numNodos-1
    uf_aux,         \* boundary union-find over 0..numNodos+1
    nodoActivo,     \* activation vector
    current_p,      \* threshold already processed
    p_c,            \* critical threshold, NoPc while never assigned
    Smax,           \* the caller's largest-cluster tracker (int& Smax)
    ret,            \* value returned by the last generate_single_percolation
    pc,             \* "new", "api", "loop", "done"
    p,              \* loop variable of generate_full_percolation
    step,           \* step argument of generate_full_percolation
    percolation,    \* local flag of generate_full_percolation
    resultados,     \* records pushed by generate_full_percolation
    visualization,  \* visualization argument of generate_full_percolation
    lastOp,         \* history: kind of the last operation
    hist,           \* history: what the run has done so far (see Init)
    twin            \* the reference run next to this one (see Init)

vars == <<numNodos, aristas, configuracion, uf, uf_aux, nodoActivo, current_p,
          p_c, Smax, ret, pc, p, step, percolation, resultados, visualization,
          lastOp, hist, twin>>

\* ----------------------------------------------------------------- double
\* A double d is <<hi, mid, lo>> with d = (hi * 2^56 + mid * 2^28 + lo) * 2^-56.
LimbBase == 2 ^ 28

\* Literals of the program and of the runs, as the doubles nearest to them.
Zero == <<0, 0, 0>>                       \* 0.0
One == <<1, 0, 0>>                        \* 1.0
OnePlusTol == <<1, 0, 7205760>>           \* 1.0 + 1e-10
D01 == <<0, 26843545, 161061274>>         \* 0.1
D02 == <<0, 53687091, 53687092>>          \* 0.2
D025 == <<0, 67108864, 0>>                \* 0.25
D05 == <<0, 134217728, 0>>                \* 0.5
D08 == <<0, 214748364, 214748368>>        \* 0.8
D09 == <<0, 241591910, 107374184>>        \* 0.9

\* The double k/2.
Grid(k) == <<k \div 2, (k % 2) * (LimbBase \div 2), 0>>

DblLt(a, b) ==
    \/ a[1] < b[1]
    \/ a[1] = b[1] /\ a[2] < b[2]
    \/ a[1] = b[1] /\ a[2] = b[2] /\ a[3] < b[3]

DblLe(a, b) == a = b \/ DblLt(a, b)

\* Exact sum of two unit counts, limb by limb with carry.
ExactAdd(a, b) ==
    LET lo  == a[3] + b[3]
        mid == a[2] + b[2] + lo \div LimbBase
    IN  <<a[1] + b[1] + mid \div LimbBase, mid % LimbBase, lo % LimbBase>>

\* Units of 2^-56 in one unit in the last place of a value of this size: a
\* double keeps 53 significant bits.
Ulp(x) ==
    IF x[1] >= 1 THEN 16
    ELSE IF x[2] >= LimbBase \div 2 THEN 8
    ELSE IF x[2] >= LimbBase \div 4 THEN 4
    ELSE IF x[2] >= LimbBase \div 8 THEN 2
    ELSE 1

\* The double nearest to the exact count x, ties to the even significand.
DblRound(x) ==
    LET q    == Ulp(x)
        r    == x[3] % q
        down == x[3] - r
        up   == 2 * r > q \/ (2 * r = q /\ (down \div q) % 2 = 1)
    IN  IF up THEN ExactAdd(<<x[1], x[2], down>>, <<0, 0, q>>)
        ELSE <<x[1], x[2], down>>

\* a + b in double arithmetic.
DblAdd(a, b) == DblRound(ExactAdd(a, b))

\* p_c is a member without initializer: it holds no value until assigned.
NoPc == <<-1, 0, 0>>
\* ret before any call of generate_single_percolation.
NoRet == -1

Max(a, b) == IF a >= b THEN a ELSE b

Nodes(n) == 0 .. (n - 1)

\* ------------------------------------------------- UnionFind (section 4.1)
NewUnionFind(m) ==
    [parent |-> [i \in 0 .. (m - 1) |-> i], size |-> [i \in 0 .. (m - 1) |-> 1]]

RECURSIVE FindRoot(_, _)
FindRoot(parent, x) == IF parent[x] = x THEN x ELSE FindRoot(parent, parent[x])

RECURSIVE PathTo(_, _)
PathTo(parent, x) == IF parent[x] = x THEN {x} ELSE {x} \cup PathTo(parent, parent[x])

\* Mutant: find without path compression.
FindNoCompression(d, x) == d

\* find(x): the structure after the call (full path compression).
Find(d, x) ==
    LET r == FindRoot(d.parent, x)
        path == PathTo(d.parent, x)
    IN  [d EXCEPT !.parent = [i \in DOMAIN d.parent |->
                                 IF i \in path THEN r ELSE d.parent[i]]]

\* Mutant: naive union, the second root always goes under the first.
UniteNaive(d, a, b) ==
    LET ra == FindRoot(d.parent, a)
        rb == FindRoot(d.parent, b)
        d2 == Find(Find(d, a), b)
    IN  IF ra = rb THEN d2
        ELSE [parent |-> [d2.parent EXCEPT ![rb] = ra],
              size   |-> [d2.size EXCEPT ![ra] = d2.size[ra] + d2.size[rb]]]

\* unite(a, b): union by size on the roots found by two compressing finds.
Unite(d, a, b) ==
    LET ra == FindRoot(d.parent, a)
        d1 == Find(d, a)
        rb == FindRoot(d1.parent, b)
        d2 == Find(d1, b)
    IN  IF ra = rb THEN d2
        ELSE IF d2.size[ra] < d2.size[rb]
             THEN [parent |-> [d2.parent EXCEPT ![ra] = rb],
                   size   |-> [d2.size EXCEPT ![rb] = d2.size[ra] + d2.size[rb]]]
             ELSE [parent |-> [d2.parent EXCEPT ![rb] = ra],
                   size   |-> [d2.size EXCEPT ![ra] = d2.size[ra] + d2.size[rb]]]

\* get_size(x): size of the component containing x.
GetSize(d, x) == d.size[FindRoot(d.parent, x)]

\* Ncc(n): number of distinct roots among the first n elements.
Ncc(d, n) == Cardinality({FindRoot(d.parent, i) : i \in Nodes(n)})

\* ------------------------------------------------------- SitePercolation
SuperTop(n) == n
SuperBottom(n) == n + 1

\* Mutant: the boundary structure allocated one element too large.
ConstructorExtraSlot(n) ==
    [uf         |-> NewUnionFind(n),
     uf_aux     |-> NewUnionFind(n + 3),
     current_p  |-> Zero,
     nodoActivo |-> [i \in Nodes(n) |-> FALSE]]

\* The constructor: both structures fresh, current_p = 0.0, no node active.
Constructor(n) ==
    [uf         |-> NewUnionFind(n),
     uf_aux     |-> NewUnionFind(n + 2),
     current_p  |-> Zero,
     nodoActivo |-> [i \in Nodes(n) |-> FALSE]]

\* int grid_size = sqrt(numNodos): the truncated square root.
GridSize(n) == CHOOSE k \in 0 .. n : k * k <= n /\ (k + 1) * (k + 1) > n

\* The loop of initialize_supernodes from index i on.
RECURSIVE SupernodesLoop(_, _, _)
SupernodesLoop(aux, n, i) ==
    IF i < GridSize(n)
    THEN SupernodesLoop(
             Unite(Unite(aux, SuperTop(n), i), SuperBottom(n), n - GridSize(n) + i),
             n, i + 1)
    ELSE aux

InitializeSupernodes(aux, n) == SupernodesLoop(aux, n, 0)

\* has_percolation(): the value returned ...
HasPercolation(aux, n) ==
    FindRoot(aux.parent, SuperTop(n)) = FindRoot(aux.parent, SuperBottom(n))

\* Mutant: the terminals are united instead of looked up.
HasPercolationEffectUnites(aux, n) == Unite(aux, SuperTop(n), SuperBottom(n))

\* ... and the structure its two find calls leave behind.
HasPercolationEffect(aux, n) == Find(Find(aux, SuperTop(n)), SuperBottom(n))

\* Mutant: the guard is missing, every call is accepted.
RejectsNever(q, cur) == FALSE

\* The guard of the early return.
Rejects(q, cur) == DblLt(q, cur)

\* Mutant: a weight equal to the threshold does not activate.
ShouldActivateStrict(active, w, q) == ~active /\ DblLt(w, q)

\* The activation test of one node.
ShouldActivate(active, w, q) == ~active /\ DblLe(w, q)

Activate(act, conf, q) ==
    [i \in DOMAIN act |-> IF ShouldActivate(act[i], conf[i], q) THEN TRUE ELSE act[i]]

\* Mutant: only the first endpoint is tested.
BothActiveFirstOnly(act, u, v) == act[u]

\* The test that lets an edge be united.
BothActive(act, u, v) == act[u] /\ act[v]

\* Mutant: min in place of the outer max.
UpdateSmaxMin(smax, d, u, v) ==
    IF smax <= Max(GetSize(d, u), GetSize(d, v)) THEN smax
    ELSE Max(GetSize(d, u), GetSize(d, v))

\* Smax = max(Smax, max(get_size(u), get_size(v))) after uf.unite(u, v).
UpdateSmax(smax, d, u, v) == Max(smax, Max(GetSize(d, u), GetSize(d, v)))

\* Mutant: the boundary structure is given the first endpoint twice.
UniteAuxSelf(aux, u, v) == Unite(aux, u, u)

\* uf_aux.unite(u, v) of the edge loop.
UniteAux(aux, u, v) == Unite(aux, u, v)

\* The body of the edge loop for one edge; st = [uf, uf_aux, Smax].
ProcessEdge(st, act, e) ==
    IF BothActive(act, e[1], e[2])
    THEN LET d == Unite(st.uf, e[1], e[2])
         IN  [uf     |-> d,
              Smax   |-> UpdateSmax(st.Smax, d, e[1], e[2]),
              uf_aux |-> UniteAux(st.uf_aux, e[1], e[2])]
    ELSE st

RECURSIVE ConnectEdges(_, _, _, _)
ConnectEdges(st, act, edges, i) ==
    IF i > Len(edges) THEN st
    ELSE ConnectEdges(ProcessEdge(st, act, edges[i]), act, edges, i + 1)

\* Mutant: inactive nodes are left out of the count.
ComponentCountActiveOnly(d, act, n) ==
    Cardinality({FindRoot(d.parent, i) : i \in {j \in Nodes(n) : act[j]}})

\* The value returned: uf.Ncc(numNodos).
ComponentCount(d, act, n) == Ncc(d, n)

\* Mutant: the threshold is committed before the guard returns.
RejectedResultCommits(e, q, smax) ==
    [uf |-> e.uf, uf_aux |-> e.uf_aux, nodoActivo |-> e.nodoActivo,
     current_p |-> q, Smax |-> smax,
     ret |-> Ncc(e.uf, e.numNodos),
     accepted |-> FALSE]

\* Mutant: a rejected call rebuilds the boundary structure.
RejectedResultResetsAux(e, q, smax) ==
    [uf |-> e.uf, uf_aux |-> NewUnionFind(e.numNodos + 2),
     nodoActivo |-> e.nodoActivo,
     current_p |-> e.current_p, Smax |-> smax,
     ret |-> Ncc(e.uf, e.numNodos),
     accepted |-> FALSE]

\* The early return of a rejected call: nothing is written, uf.Ncc(numNodos)
\* is returned.
RejectedResult(e, q, smax) ==
    [uf |-> e.uf, uf_aux |-> e.uf_aux, nodoActivo |-> e.nodoActivo,
     current_p |-> e.current_p, Smax |-> smax,
     ret |-> ComponentCount(e.uf, e.nodoActivo, e.numNodos),
     accepted |-> FALSE]

\* generate_single_percolation on engine
\* e = [numNodos, uf, uf_aux, nodoActivo, current_p]
\* with tracker smax: the engine and tracker after the call, the value
\* returned, and whether the call was accepted.
GenerateSinglePercolation(e, edges, conf, q, smax) ==
    IF Rejects(q, e.current_p)
    THEN RejectedResult(e, q, smax)
    ELSE LET act == Activate(e.nodoActivo, conf, q)
             st  == ConnectEdges([uf |-> e.uf, uf_aux |-> e.uf_aux, Smax |-> smax],
                                 act, edges, 1)
         IN  [uf |-> st.uf, uf_aux |-> st.uf_aux, nodoActivo |-> act,
              current_p |-> q, Smax |-> st.Smax,
              ret |-> ComponentCount(st.uf, act, e.numNodos),
              accepted |-> TRUE]

\* Mutant: the tracker starts at zero.
InitialSmaxZero == 1 - 1

\* int Smax = 1 at the head of generate_full_percolation.
InitialSmax == 1

\* for (double p = 0.0; p <= 1.0 + 1e-10; p += step): condition and increment.
LoopCond(q) == DblLe(q, OnePlusTol)
NextP(q, s) == DblAdd(q, s)

\* Mutant: the flag is not consulted.
DetectsIgnoringFlag(flag, aux, n) == HasPercolation(aux, n)

\* if (!percolation && has_percolation()): has_percolation is called, and
\* compresses uf_aux, only while the flag is still false.
Detects(flag, aux, n) == ~flag /\ HasPercolation(aux, n)

\* The record pushed for one iteration; Nmax = Smax / numNodos is kept as
\* the pair of numerator and denominator.
Record(q, ncc, smax, n) ==
    [p |-> q, Ncc |-> ncc, Smax |-> smax, Nmax |-> <<smax, n>>]

\* Mutant: the row is produced with unite(0, i) in place of find(i).
RECURSIVE ClusterOfEachNodeUniting(_, _, _)
ClusterOfEachNodeUniting(d, n, i) ==
    IF i < n THEN ClusterOfEachNodeUniting(Unite(d, 0, i), n, i + 1) ELSE d

\* for (i...) cluster_of_each_node << uf.find(i): the structure the finds
\* of one visualization row leave behind, from index i on.
RECURSIVE ClusterOfEachNode(_, _, _)
ClusterOfEachNode(d, n, i) ==
    IF i < n THEN ClusterOfEachNode(Find(d, i), n, i + 1) ELSE d

\* The part of one iteration under if (visualization).
VisualizationOutput(viz, d, n) == IF viz THEN ClusterOfEachNode(d, n, 0) ELSE d

\* ------------------------------------------------------------ the inputs
Pairs(n) == {e \in Nodes(n) \X Nodes(n) : e[1] < e[2]}

Before(e, f) == e[1] < f[1] \/ (e[1] = f[1] /\ e[2] < f[2])

\* Edge lists: up to MaxEdges distinct edges over the nodes.
EdgeLists(n) ==
    UNION {{s \in [1 .. k -> Pairs(n)] :
               \A i \in 1 .. (k - 1) : Before(s[i], s[i + 1])} : k \in 0 .. MaxEdges}

\* Weight vectors: one weight in [0, 1) per node.
Weights(n) == [Nodes(n) -> {Grid(k) : k \in 0 .. (Scale - 1)}]

Engine ==
    [numNodos |-> numNodos, uf |-> uf, uf_aux |-> uf_aux,
     nodoActivo |-> nodoActivo, current_p |-> current_p]

\* Edges (by index) that an accepted step with activation vector act skips.
SkippedBy(act) ==
    {i \in 1 .. Len(aristas) : ~(act[aristas[i][1]] /\ act[aristas[i][2]])}

\* ----------------------------------------------------------------- Init
\* The unite calls of one edge loop over structure d that find two roots.
RECURSIVE MergingUnites(_, _, _, _)
MergingUnites(d, act, edges, i) ==
    IF i > Len(edges) THEN 0
    ELSE IF act[edges[i][1]] /\ act[edges[i][2]]
         THEN (IF FindRoot(d.parent, edges[i][1]) # FindRoot(d.parent, edges[i][2])
               THEN 1 ELSE 0)
              + MergingUnites(Unite(d, edges[i][1], edges[i][2]), act, edges, i + 1)
         ELSE MergingUnites(d, act, edges, i + 1)

\* hist records, the last four only in a traced run (traced = TRUE),
\*   skipped:    edges skipped by some accepted step so far,
\*   percAt:     per sweep iteration, whether uf_aux joined the terminals
\*               after the step of that iteration,
\*   pcWrites:   assignments to p_c made by the sweep,
\*   merges:     uf.unite calls so far that found two different roots,
\*   activeAt:   per sweep iteration, the activation vector after its step,
\*   rejected:   whether some call has been rejected,
\*   queryWrote: whether some direct has_percolation call changed uf_aux.
NewHist(tr) ==
    [traced |-> tr, skipped |-> {}, percAt |-> <<>>, pcWrites |-> 0, merges |-> 0,
     activeAt |-> <<>>, rejected |-> FALSE, queryWrote |-> FALSE]

\* twin is, in a traced run, the engine of the reference run: the same
\* constructor and the same calls with the same arguments, except that it
\*   - is not handed the calls this run rejects,
\*   - sweeps with visualization = false,
\*   - is not handed the find calls of SpecDsu.
NewTwin(n) ==
    [uf |-> Constructor(n).uf, uf_aux |-> Constructor(n).uf_aux,
     nodoActivo |-> Constructor(n).nodoActivo,
     current_p |-> Constructor(n).current_p,
     Smax |-> InitialSmax, ret |-> NoRet, p_c |-> NoPc,
     percolation |-> FALSE, resultados |-> <<>>]

TwinEngine ==
    [numNodos |-> numNodos, uf |-> twin.uf, uf_aux |-> twin.uf_aux,
     nodoActivo |-> twin.nodoActivo, current_p |-> twin.current_p]

\* One call generate_single_percolation(aristas, configuracion, q, Smax) on
\* this run's engine and on the reference run's, each with its own tracker.
BothCalls(q) ==
    [e \in {<<Engine, Smax>>, <<TwinEngine, twin.Smax>>} |->
        GenerateSinglePercolation(e[1], aristas, configuracion, q, e[2])]

\* A freshly constructed engine with no call made yet.
Fresh(tr) ==
    /\ uf = Constructor(numNodos).uf
    /\ uf_aux = Constructor(numNodos).uf_aux
    /\ nodoActivo = Constructor(numNodos).nodoActivo
    /\ current_p = Constructor(numNodos).current_p
    /\ p_c = NoPc
    /\ Smax = InitialSmax
    /\ ret = NoRet
    /\ pc = "new"
    /\ p = Zero
    /\ step = Zero
    /\ percolation = FALSE
    /\ resultados = <<>>
    /\ visualization = FALSE
    /\ lastOp = "construct"
    /\ hist = NewHist(tr)
    /\ twin = NewTwin(numNodos)

Init ==
    /\ numNodos \in 1 .. MaxN
    /\ aristas \in EdgeLists(numNodos)
    /\ configuracion \in Weights(numNodos)
    /\ Fresh(FALSE)

\* -------------------------------------------------------------- actions
\* A caller wires the boundary structure itself and then drives the engine
\* through generate_single_percolation.
CallInitializeSupernodes ==
    /\ pc = "new"
    /\ uf_aux' = InitializeSupernodes(uf_aux, numNodos)
    /\ pc' = "api"
    /\ lastOp' = "init"
    /\ twin' = IF hist.traced
               THEN [twin EXCEPT !.uf_aux = InitializeSupernodes(@, numNodos)]
               ELSE twin
    /\ UNCHANGED <<numNodos, aristas, configuracion, uf, nodoActivo, current_p,
                   p_c, Smax, ret, p, step, percolation, resultados,
                   visualization, hist>>

\* A direct call generate_single_percolation(aristas, configuracion, q, Smax).
CallGenerateSingle(q) ==
    /\ pc = "api"
    /\ LET r  == BothCalls(q)[<<Engine, Smax>>]
           rT == BothCalls(q)[<<TwinEngine, twin.Smax>>]
       IN  /\ uf' = r.uf
           /\ uf_aux' = r.uf_aux
           /\ nodoActivo' = r.nodoActivo
           /\ current_p' = r.current_p
           /\ Smax' = r.Smax
           /\ ret' = r.ret
           /\ lastOp' = IF r.accepted THEN "accepted" ELSE "rejected"
           /\ hist' = IF r.accepted
                      THEN [hist EXCEPT
                               !.skipped = @ \cup SkippedBy(r.nodoActivo),
                               !.merges = IF hist.traced
                                          THEN @ + MergingUnites(uf, r.nodoActivo, aristas, 1)
                                          ELSE @]
                      ELSE [hist EXCEPT !.rejected = hist.traced]
           /\ twin' = IF hist.traced /\ r.accepted
                      THEN [twin EXCEPT !.uf = rT.uf, !.uf_aux = rT.uf_aux,
                                        !.nodoActivo = rT.nodoActivo,
                                        !.current_p = rT.current_p,
                                        !.Smax = rT.Smax, !.ret = rT.ret]
                      ELSE twin
    /\ UNCHANGED <<numNodos, aristas, configuracion, p_c, pc, p, step,
                   percolation, resultados, visualization>>

\* A direct call has_percolation().
CallHasPercolation ==
    /\ pc = "api"
    /\ uf_aux' = HasPercolationEffect(uf_aux, numNodos)
    /\ lastOp' = "query"
    /\ hist' = [hist EXCEPT !.queryWrote = @ \/ (hist.traced /\ uf_aux' # uf_aux)]
    /\ twin' = IF hist.traced
               THEN [twin EXCEPT !.uf_aux = HasPercolationEffect(@, numNodos)]
               ELSE twin
    /\ UNCHANGED <<numNodos, aristas, configuracion, uf, nodoActivo, current_p,
                   p_c, Smax, ret, pc, p, step, percolation, resultados,
                   visualization>>

\* generate_full_percolation(aristas, configuracion, s, v) up to its loop:
\* Smax = 1, initialize_supernodes, percolation = false, p = 0.0.
SweepStart(s, v) ==
    /\ pc = "new"
    /\ step' = s
    /\ visualization' = v
    /\ Smax' = InitialSmax
    /\ uf_aux' = InitializeSupernodes(uf_aux, numNodos)
    /\ percolation' = FALSE
    /\ p' = Zero
    /\ resultados' = <<>>
    /\ pc' = "loop"
    /\ lastOp' = "start"
    /\ twin' = IF hist.traced
               THEN [twin EXCEPT !.uf_aux = InitializeSupernodes(@, numNodos),
                                 !.Smax = InitialSmax,
                                 !.percolation = FALSE,
                                 !.resultados = <<>>]
               ELSE twin
    /\ UNCHANGED <<numNodos, aristas, configuracion, uf, nodoActivo, current_p,
                   p_c, ret, hist>>

\* One iteration of the loop of generate_full_percolation.
SweepIteration ==
    /\ pc = "loop"
    /\ LoopCond(p)
    /\ LET r == BothCalls(p)[<<Engine, Smax>>]
           found == Detects(percolation, r.uf_aux, numNodos)
           rT == BothCalls(p)[<<TwinEngine, twin.Smax>>]
           foundT == Detects(twin.percolation, rT.uf_aux, numNodos)
       IN  /\ uf' = VisualizationOutput(visualization, r.uf, numNodos)
           /\ nodoActivo' = r.nodoActivo
           /\ current_p' = r.current_p
           /\ Smax' = r.Smax
           /\ ret' = r.ret
           /\ resultados' = Append(resultados, Record(p, r.ret, r.Smax, numNodos))
           /\ uf_aux' = IF percolation THEN r.uf_aux
                        ELSE HasPercolationEffect(r.uf_aux, numNodos)
           /\ p_c' = IF found THEN p ELSE p_c
           /\ percolation' = IF found THEN TRUE ELSE percolation
           /\ lastOp' = IF r.accepted THEN "accepted" ELSE "rejected"
           /\ hist' = [hist EXCEPT
                          !.skipped = IF r.accepted
                                      THEN @ \cup SkippedBy(r.nodoActivo) ELSE @,
                          !.percAt = Append(@, HasPercolation(r.uf_aux, numNodos)),
                          !.pcWrites = @ + (IF found THEN 1 ELSE 0),
                          !.merges = IF hist.traced /\ r.accepted
                                     THEN @ + MergingUnites(uf, r.nodoActivo, aristas, 1)
                                     ELSE @,
                          !.activeAt = IF hist.traced THEN Append(@, r.nodoActivo) ELSE @,
                          !.rejected = @ \/ (hist.traced /\ ~r.accepted)]
           /\ twin' = IF ~hist.traced THEN twin ELSE
                      [uf          |-> VisualizationOutput(FALSE, rT.uf, numNodos),
                       uf_aux      |-> IF twin.percolation THEN rT.uf_aux
                                       ELSE HasPercolationEffect(rT.uf_aux, numNodos),
                       nodoActivo  |-> rT.nodoActivo,
                       current_p   |-> rT.current_p,
                       Smax        |-> rT.Smax,
                       ret         |-> rT.ret,
                       p_c         |-> IF foundT THEN p ELSE twin.p_c,
                       percolation |-> IF foundT THEN TRUE ELSE twin.percolation,
                       resultados  |-> Append(twin.resultados,
                                              Record(p, rT.ret, rT.Smax, numNodos))]
    /\ p' = NextP(p, step)
    /\ UNCHANGED <<numNodos, aristas, configuracion, pc, step, visualization>>

\* The loop condition fails: generate_full_percolation returns resultados.
SweepEnd ==
    /\ pc = "loop"
    /\ ~LoopCond(p)
    /\ pc' = "done"
    /\ lastOp' = "end"
    /\ UNCHANGED <<numNodos, aristas, configuracion, uf, uf_aux, nodoActivo,
                   current_p, p_c, Smax, ret, p, step, percolation, resultados,
                   visualization, hist, twin>>

Next ==
    \/ CallInitializeSupernodes
    \/ \E k \in 0 .. Scale : CallGenerateSingle(Grid(k))
    \/ \E k \in 1 .. Scale : SweepStart(Grid(k), FALSE)
    \/ SweepIteration
    \/ SweepEnd

Spec == Init /\ [][Next]_vars

\* -------------------------------------------------------------- SpecCalls
\* The engine driven directly, with the traced history and the reference
\* run that is not handed the rejected calls, on edge lists of fewer than
\* MaxEdges edges.
InitCalls ==
    /\ numNodos \in 1 .. MaxN
    /\ aristas \in {s \in EdgeLists(numNodos) : Len(s) < MaxEdges}
    /\ configuracion \in Weights(numNodos)
    /\ Fresh(TRUE)

NextCalls ==
    \/ CallInitializeSupernodes
    \/ \E k \in 0 .. Scale : CallGenerateSingle(Grid(k))

SpecCalls == InitCalls /\ [][NextCalls]_vars

\* ------------------------------------------------------------ SpecLattice
\* The four-node square lattice (0, 1 top row; 2, 3 bottom row): its edges
\* in two listing orders, weights and steps on a decimal grid.
ScenarioEdges == << <<0, 1>>, <<0, 2>>, <<1, 3>>, <<2, 3>> >>
ScenarioWeights == <<D01, D09, D02, D08>>

ScenarioConf == [i \in Nodes(Len(ScenarioWeights)) |-> ScenarioWeights[i + 1]]

LatticeEdgeLists == {ScenarioEdges, << <<0, 1>>, <<2, 3>>, <<1, 3>>, <<0, 2>> >>}

LatticeWeights(n) == [Nodes(n) -> {D01, D02, D08, D09}]

LatticeSteps == {D01, D02, D025, D05}

InitLattice ==
    /\ numNodos = Len(ScenarioWeights)
    /\ aristas \in LatticeEdgeLists
    /\ configuracion \in LatticeWeights(numNodos)
    /\ Fresh(TRUE)

NextLattice ==
    \/ \E s \in LatticeSteps : \E v \in BOOLEAN : SweepStart(s, v)
    \/ SweepIteration
    \/ SweepEnd

SpecLattice == InitLattice /\ [][NextLattice]_vars

\* --------------------------------------------------------------- SpecDeep
\* A chain of two links above a terminal needs a tree of 16 elements in
\* uf_aux when the terminal starts with three row nodes below it: the
\* smallest such lattice has 16 - 2 nodes.
DeepN == 2 ^ 4 - 2

\* Nodes 3..10 are built into one tree, then the bottom row is joined to the
\* top row and that tree to the bottom row.
DeepEdges ==
    << <<3, 4>>, <<5, 6>>, <<7, 8>>, <<9, 10>>, <<3, 5>>, <<7, 9>>, <<3, 7>>,
       <<11, 0>>, <<3, 11>> >>

\* Weights 0.0 or 0.5 on nodes 0..4, 0.0 on the others.
DeepWeights ==
    {[i \in Nodes(DeepN) |-> IF i <= 4 THEN f[i] ELSE Zero] :
        f \in [0 .. 4 -> {Zero, D05}]}

InitDeep ==
    /\ numNodos = DeepN
    /\ aristas = DeepEdges
    /\ configuracion \in DeepWeights
    /\ Fresh(TRUE)

NextDeep ==
    \/ CallInitializeSupernodes
    \/ \E k \in 0 .. Scale : CallGenerateSingle(Grid(k))
    \/ CallHasPercolation

SpecDeep == InitDeep /\ [][NextDeep]_vars

\* ---------------------------------------------------------------- SpecDsu
\* The primary structure of an engine of up to MaxN + 1 nodes under any
\* sequence of unite and find calls; the reference run is handed the unite
\* calls only.
InitDsu ==
    /\ numNodos \in 1 .. (MaxN + 1)
    /\ aristas = <<>>
    /\ configuracion = [i \in Nodes(numNodos) |-> Zero]
    /\ Fresh(TRUE)

\* uf.unite(a, b)
DsuUnite(a, b) ==
    /\ pc \in {"new", "dsu"}
    /\ uf' = Unite(uf, a, b)
    /\ twin' = [twin EXCEPT !.uf = Unite(@, a, b)]
    /\ pc' = "dsu"
    /\ lastOp' = "unite"
    /\ UNCHANGED <<numNodos, aristas, configuracion, uf_aux, nodoActivo,
                   current_p, p_c, Smax, ret, p, step, percolation, resultados,
                   visualization, hist>>

\* uf.find(x)
DsuFind(x) ==
    /\ pc \in {"new", "dsu"}
    /\ uf' = Find(uf, x)
    /\ pc' = "dsu"
    /\ lastOp' = "find"
    /\ UNCHANGED <<numNodos, aristas, configuracion, uf_aux, nodoActivo,
                   current_p, p_c, Smax, ret, p, step, percolation, resultados,
                   visualization, hist, twin>>

NextDsu ==
    \/ \E a, b \in Nodes(numNodos) : DsuUnite(a, b)
    \/ \E x \in Nodes(numNodos) : DsuFind(x)

SpecDsu == InitDsu /\ [][NextDsu]_vars

\* ------------------------------------------------- reference definitions
\* Connectivity read off the inputs and the activation vector alone.
ActiveEdges ==
    {aristas[i] : i \in {j \in 1 .. Len(aristas) :
                            nodoActivo[aristas[j][1]] /\ nodoActivo[aristas[j][2]]}}

\* The elements reachable from the set S along the pairs of E.
RECURSIVE Reach(_, _)
Reach(E, S) ==
    LET T == S \cup {e[2] : e \in {f \in E : f[1] \in S}}
                \cup {e[1] : e \in {f \in E : f[2] \in S}}
    IN  IF T = S THEN S ELSE Reach(E, T)

\* u and v are the same node or joined by a path of edges of E.
Joined(E, u, v) == v \in Reach(E, {u})

SameRoot(d, u, v) == FindRoot(d.parent, u) = FindRoot(d.parent, v)

\* ----------------------------------------------------------------- C1
\* C1: a direct call of the incremental step with p < current_p changes
\* neither current_p, the activation vector, the tracker nor either
\* union-find structure, and returns the component count of the state it
\* found, which is the count the previous call returned.
C1_RejectedStepMutatesNothing ==
    [][(pc = "api" /\ lastOp' = "rejected") =>
          /\ current_p' = current_p
          /\ nodoActivo' = nodoActivo
          /\ Smax' = Smax
          /\ uf' = uf
          /\ uf_aux' = uf_aux
          /\ ret' = Ncc(uf, numNodos)
          /\ ret' = ret]_vars

\* A rejected call on an engine that has activated nodes and merged some.
C1_Witness ==
    /\ pc = "api"
    /\ lastOp = "rejected"
    /\ DblLt(Zero, current_p)
    /\ \E i \in Nodes(numNodos) : nodoActivo[i] /\ uf.parent[i] # i
    /\ ret < numNodos

\* ----------------------------------------------------------------- C2
\* C2: after every accepted step two nodes have the same root in uf exactly
\* when they are the same node or joined by a path of supplied edges whose
\* endpoints are all active; so an inactive node is alone in its component
\* and an edge skipped earlier is united once both its endpoints are active.
C2_PartitionIsActiveConnectivity ==
    lastOp = "accepted" =>
        \A u, v \in Nodes(numNodos) :
            SameRoot(uf, u, v) <=> Joined(ActiveEdges, u, v)

\* An accepted step has united an edge that an earlier accepted step skipped.
C2_Witness ==
    /\ lastOp = "accepted"
    /\ \E i \in hist.skipped :
          /\ nodoActivo[aristas[i][1]] /\ nodoActivo[aristas[i][2]]
          /\ SameRoot(uf, aristas[i][1], aristas[i][2])

\* ----------------------------------------------------------------- C3
\* Iterations of the sweep after whose step the terminals were joined.
PercolatedAt == {k \in 1 .. Len(hist.percAt) : hist.percAt[k]}

FirstPercolatedAt == CHOOSE k \in PercolatedAt : \A j \in PercolatedAt : k <= j

\* C3: in a sweep p_c is assigned at the first iteration after whose step
\* has_percolation() holds, with the p of that iteration, and only once; a
\* sweep that never percolates does not assign it.
C3_CriticalPRecordedOnce ==
    pc \in {"loop", "done"} =>
        IF PercolatedAt = {}
        THEN hist.pcWrites = 0 /\ p_c = NoPc /\ ~percolation
        ELSE /\ hist.pcWrites = 1
             /\ p_c = resultados[FirstPercolatedAt].p
             /\ percolation

\* A finished sweep that percolated at its second iteration and ran on.
C3_Witness ==
    /\ pc = "done"
    /\ PercolatedAt # {}
    /\ FirstPercolatedAt = 2
    /\ Len(hist.percAt) >= 3
    /\ hist.percAt[3]

\* ----------------------------------------------------------------- C4
\* The rows that initialize_supernodes wires to the terminals.
TopRow == 0 .. (GridSize(numNodos) - 1)
BottomRow == (numNodos - GridSize(numNodos)) .. (numNodos - 1)

\* C4: once the boundary structure is initialized, has_percolation() holds
\* exactly when a top-row node and a bottom-row node are joined by a path of
\* supplied edges with active endpoints, and never while no node is active.
C4_PercolationIsBoundaryPath ==
    pc # "new" =>
        /\ HasPercolation(uf_aux, numNodos) <=>
               \E t \in TopRow : \E b \in BottomRow : Joined(ActiveEdges, t, b)
        /\ (\A i \in Nodes(numNodos) : ~nodoActivo[i]) =>
               ~HasPercolation(uf_aux, numNodos)

\* ----------------------------------------------------------------- C5
\* C5: once has_percolation() holds it holds after every later step,
\* accepted or rejected.
C5_PercolationIsStable ==
    [][HasPercolation(uf_aux, numNodos) => HasPercolation(uf_aux', numNodos)]_vars

\* A call was rejected on an engine of at least two nodes that has percolated.
C5_Witness ==
    /\ numNodos >= 2
    /\ lastOp = "rejected"
    /\ HasPercolation(uf_aux, numNodos)

\* ----------------------------------------------------------------- C6
\* C6: an accepted step never returns a larger component count than the
\* step before it, in direct calls and in the records of a sweep.
C6_ComponentCountNonIncreasing ==
    [][(lastOp' = "accepted" /\ ret # NoRet) => ret' <= ret]_vars

\* A sweep whose records show the count dropping from the first step (some
\* nodes still inactive) to the second and staying at the third.
C6_Witness ==
    /\ Len(resultados) >= 3
    /\ resultados[1].Ncc < numNodos
    /\ resultados[2].Ncc < resultados[1].Ncc
    /\ resultados[3].Ncc = resultados[2].Ncc

\* ----------------------------------------------------------------- C7
\* C7: in the records of a sweep largestClusterSize never decreases from one
\* record to the next and lies between 1 and numNodos.
C7_LargestClusterMonotone ==
    \A k \in 1 .. Len(resultados) :
        /\ 1 <= resultados[k].Smax
        /\ resultados[k].Smax <= numNodos
        /\ k > 1 => resultados[k].Smax >= resultados[k - 1].Smax

\* A sweep whose largest cluster grew from 2 to 3 and then stayed.
C7_Witness ==
    /\ Len(resultados) >= 3
    /\ resultados[1].Smax = 2
    /\ resultados[2].Smax = 3
    /\ resultados[3].Smax = 3

\* ----------------------------------------------------------------- C8
\* C8: no operation lowers current_p or deactivates a node.
C8_StateMovesForward ==
    [][/\ DblLe(current_p, current_p')
       /\ \A i \in Nodes(numNodos) : nodoActivo[i] => nodoActivo'[i]]_vars

\* A call was rejected at the top threshold with every node active.
C8_Witness ==
    /\ lastOp = "rejected"
    /\ current_p = Grid(Scale)
    /\ \A i \in Nodes(numNodos) : nodoActivo[i]

\* ----------------------------------------------------------------- C9
Roots(d) == {i \in DOMAIN d.parent : d.parent[i] = i}

RECURSIVE SumSizes(_, _)
SumSizes(d, S) ==
    IF S = {} THEN 0
    ELSE LET x == CHOOSE y \in S : TRUE IN d.size[x] + SumSizes(d, S \ {x})

\* Every root's size is the number of elements under it, and the sizes of
\* the roots add up to m, the number of elements.
Conserves(d, m) ==
    /\ DOMAIN d.parent = 0 .. (m - 1)
    /\ \A r \in Roots(d) :
          d.size[r] = Cardinality({i \in DOMAIN d.parent : FindRoot(d.parent, i) = r})
    /\ SumSizes(d, Roots(d)) = m

\* C9: in every state the sizes of the roots of uf add up to numNodos and
\* those of uf_aux to numNodos + 2, each element lying under one root.
C9_SizeConservation ==
    /\ Conserves(uf, numNodos)
    /\ Conserves(uf_aux, numNodos + 2)

\* Both structures have merged: uf holds a component of three nodes and
\* uf_aux one of all its elements.
C9_Witness ==
    /\ \E r \in Roots(uf) : uf.size[r] = 3
    /\ Cardinality(Roots(uf_aux)) = 1

\* ---------------------------------------------------------------- C10
\* The pairs handed to uf.unite so far: the edges with both endpoints active
\* (every accepted step unites all of them).
UnitedPairs == ActiveEdges

\* The pairs handed to uf_aux.unite so far: those and, once
\* initialize_supernodes has run, the terminals with their rows.
UnitedPairsAux ==
    UnitedPairs \cup
    (IF pc = "new" THEN {}
     ELSE {<<SuperTop(numNodos), i>> : i \in TopRow}
          \cup {<<SuperBottom(numNodos), i>> : i \in BottomRow})

\* C10: elements linked by a chain of unite calls have the same root in
\* every later state, in uf and in uf_aux.
C10_UnitedStayTogether ==
    /\ \A u, v \in Nodes(numNodos) :
          Joined(UnitedPairs, u, v) => SameRoot(uf, u, v)
    /\ \A u, v \in 0 .. (numNodos + 1) :
          Joined(UnitedPairsAux, u, v) => SameRoot(uf_aux, u, v)

\* A chain of two edges was united by different steps, and a later call left
\* its ends together.
C10_Witness ==
    /\ lastOp = "rejected"
    /\ Len(aristas) >= 2
    /\ hist.skipped # {}
    /\ \E u, v \in Nodes(numNodos) :
          /\ u # v
          /\ <<u, v>> \notin UnitedPairs
          /\ <<v, u>> \notin UnitedPairs
          /\ Joined(UnitedPairs, u, v)
          /\ SameRoot(uf_aux, u, v)

\* ---------------------------------------------------------------- C11
SamePartition(d, e) ==
    /\ DOMAIN d.parent = DOMAIN e.parent
    /\ \A i \in DOMAIN d.parent : FindRoot(d.parent, i) = FindRoot(e.parent, i)

\* C11 as stated: a sweep with the visualization output and the same sweep
\* without it return the same records and end in the same engine state:
\* current_p, activation vector, both union-find structures, p_c.
C11_SinkLeavesNoTrace ==
    pc = "done" =>
        /\ resultados = twin.resultados
        /\ current_p = twin.current_p
        /\ nodoActivo = twin.nodoActivo
        /\ uf = twin.uf
        /\ uf_aux = twin.uf_aux
        /\ p_c = twin.p_c

\* C11, amended: at every iteration the two sweeps have pushed the same
\* records and hold the same current_p, activation vector, p_c and uf_aux,
\* and in uf the same roots and sizes for all nodes; the parent pointers of
\* uf may differ, because the output calls uf.find on every node.
C11_SinkKeepsResults ==
    pc \in {"loop", "done"} =>
        /\ resultados = twin.resultados
        /\ current_p = twin.current_p
        /\ nodoActivo = twin.nodoActivo
        /\ p_c = twin.p_c
        /\ uf_aux = twin.uf_aux
        /\ SamePartition(uf, twin.uf)
        /\ uf.size = twin.uf.size

\* A finished sweep with the output on whose uf differs from that of the
\* sweep without it.
C11_Witness ==
    /\ pc = "done"
    /\ visualization
    /\ uf # twin.uf
    /\ Len(resultados) >= 3

\* ---------------------------------------------------------------- C12
\* The supplied edges with both endpoints active under activation vector act.
EdgesAmong(act) ==
    {aristas[i] : i \in {j \in 1 .. Len(aristas) :
                            act[aristas[j][1]] /\ act[aristas[j][2]]}}

\* Sweep iterations after whose step a top-row node and a bottom-row node
\* are joined by active edges.
ClosedAt ==
    {k \in 1 .. Len(hist.activeAt) :
        \E t \in TopRow : \E b \in BottomRow :
            Joined(EdgesAmong(hist.activeAt[k]), t, b)}

ActiveSetAt(k) == {i \in Nodes(numNodos) : hist.activeAt[k][i]}

\* C12: the sweep of the scenario (edges (0,1),(0,2),(1,3),(2,3), weights
\* 0.1, 0.9, 0.2, 0.8, step 0.1) has, in its record after one step, p = 0.1,
\* only node 0 active and 4 components; after two steps p = 0.2, nodes 0 and
\* 2 active, 3 components and largest cluster 2; after nine steps p = 0.9,
\* all nodes active, 1 component and largest cluster 4; and p_c is the p of
\* the first record at which a top-row and a bottom-row node are joined.
C12_Scenario ==
    (/\ pc = "done"
     /\ aristas = ScenarioEdges
     /\ configuracion = ScenarioConf
     /\ step = D01) =>
        /\ resultados[2].p = D01
        /\ ActiveSetAt(2) = {0}
        /\ resultados[2].Ncc = 4
        /\ resultados[3].p = D02
        /\ ActiveSetAt(3) = {0, 2}
        /\ resultados[3].Ncc = 3
        /\ resultados[3].Smax = 2
        /\ resultados[10].p = D09
        /\ ActiveSetAt(10) = Nodes(numNodos)
        /\ resultados[10].Ncc = 1
        /\ resultados[10].Smax = 4
        /\ ClosedAt # {}
        /\ \E k \in ClosedAt :
              /\ \A j \in ClosedAt : k <= j
              /\ p_c = resultados[k].p

\* ---------------------------------------------------------------- C13
\* The exact product k * s as a count of units.
RECURSIVE ExactTimes(_, _)
ExactTimes(k, s) == IF k = 0 THEN Zero ELSE ExactAdd(ExactTimes(k - 1, s), s)

\* k * s in double arithmetic.
DblTimes(k, s) == DblRound(ExactTimes(k, s))

\* 1/s is an integer: some whole multiple of s is 1.0 in double arithmetic.
UnitFraction(s) == \E n \in 1 .. 16 : DblTimes(n, s) = One

\* C13: a sweep pushes one record per iteration with strictly increasing p,
\* the k-th record (k = 0, 1, ...) carrying p = k * step; the first record is
\* at p = 0 and, when 1/step is an integer, the last one at p = 1.
C13_RecordsOnStepGrid ==
    /\ pc \in {"loop", "done"} =>
          /\ Len(resultados) = Len(hist.percAt)
          /\ \A k \in 1 .. Len(resultados) :
                /\ resultados[k].p = DblTimes(k - 1, step)
                /\ k > 1 => DblLt(resultados[k - 1].p, resultados[k].p)
    /\ pc = "done" =>
          /\ resultados[1].p = Zero
          /\ UnitFraction(step) => resultados[Len(resultados)].p = One

\* ---------------------------------------------------------------- C14
\* C14 as stated: a call of has_percolation() changes nothing in the engine,
\* the parent and size mappings of uf_aux included.
C14_QueryIsPure ==
    [][lastOp' = "query" =>
          /\ uf_aux' = uf_aux
          /\ UNCHANGED <<uf, nodoActivo, current_p, p_c, Smax>>]_vars

\* C14, amended: a call of has_percolation() changes no root, no size and
\* nothing outside uf_aux, and its answer is the same before and after; the
\* only parents it rewrites are those of elements on the way from a terminal
\* to its root, which then point at that root.
C14_QueryKeepsPartition ==
    [][lastOp' = "query" =>
          /\ SamePartition(uf_aux', uf_aux)
          /\ uf_aux'.size = uf_aux.size
          /\ HasPercolation(uf_aux', numNodos) <=> HasPercolation(uf_aux, numNodos)
          /\ \A i \in DOMAIN uf_aux.parent :
                uf_aux'.parent[i] # uf_aux.parent[i] =>
                    /\ uf_aux'.parent[i] = FindRoot(uf_aux.parent, i)
                    /\ \/ i \in PathTo(uf_aux.parent, SuperTop(numNodos))
                       \/ i \in PathTo(uf_aux.parent, SuperBottom(numNodos))
          /\ UNCHANGED <<uf, nodoActivo, current_p, p_c, Smax>>]_vars

\* A direct call of has_percolation() has rewritten a parent in uf_aux.
C14_Witness ==
    /\ lastOp = "query"
    /\ hist.queryWrote
    /\ uf_aux.parent[SuperTop(numNodos)] # SuperTop(numNodos)

\* ---------------------------------------------------------------- C15
\* C15 as stated: in every reachable state, the freshly constructed one
\* included, a node is active exactly when its weight is <= current_p.
C15_ActiveIffWeightBelow ==
    \A i \in Nodes(numNodos) :
        nodoActivo[i] <=> DblLe(configuracion[i], current_p)

\* C15, amended: in every state after the first call of the incremental
\* step (the first call is always accepted), a node is active exactly when
\* its weight is <= current_p, a weight equal to current_p included.
C15_ActiveIffWeightBelowOnceStepped ==
    ret # NoRet =>
        \A i \in Nodes(numNodos) :
            nodoActivo[i] <=> DblLe(configuracion[i], current_p)

\* After an accepted step a node whose weight equals current_p is active and
\* a node of larger weight is not.
C15_Witness ==
    /\ lastOp = "accepted"
    /\ \E i \in Nodes(numNodos) : configuracion[i] = current_p /\ nodoActivo[i]
    /\ \E j \in Nodes(numNodos) : DblLt(current_p, configuracion[j]) /\ ~nodoActivo[j]

\* ---------------------------------------------------------------- C16
\* The largest get_size(x) over the nodes of d.
TrueLargest(d, n) ==
    CHOOSE m \in {GetSize(d, x) : x \in Nodes(n)} :
        \A k \in {GetSize(d, x) : x \in Nodes(n)} : m >= k

\* C16: in a sweep on a fresh engine the largestClusterSize of the record
\* just pushed is the largest get_size(x) over all nodes of uf, and so is
\* the tracker.
C16_TrackerIsTrueLargest ==
    (pc \in {"loop", "done"} /\ Len(resultados) >= 1) =>
        /\ resultados[Len(resultados)].Smax = TrueLargest(uf, numNodos)
        /\ Smax = TrueLargest(uf, numNodos)

\* A sweep whose first record has no cluster above one node and whose second
\* has a cluster of two next to a node outside it.
C16_Witness ==
    /\ Len(resultados) = 2
    /\ resultados[1].Smax = 1
    /\ resultados[2].Smax = 2
    /\ \E x \in Nodes(numNodos) : GetSize(uf, x) = 1

\* ---------------------------------------------------------------- C17
ActiveNodes == {i \in Nodes(numNodos) : nodoActivo[i]}

\* The connected components of the subgraph induced by the active nodes.
ActiveComponents == {Reach(ActiveEdges, {i}) : i \in ActiveNodes}

\* C17: the count returned by an incremental step is the number of inactive
\* nodes plus the number of connected components among the active ones, and
\* it is numNodos minus the number of uf.unite calls so far that joined two
\* different components.
C17_CountsInactiveSingletons ==
    lastOp \in {"accepted", "rejected"} =>
        /\ ret = Cardinality(Nodes(numNodos) \ ActiveNodes)
                   + Cardinality(ActiveComponents)
        /\ ret = numNodos - hist.merges

\* A step returned a count that includes an inactive node and reflects one
\* merge.
C17_Witness ==
    /\ lastOp = "accepted"
    /\ Nodes(numNodos) \ ActiveNodes # {}
    /\ hist.merges >= 1
    /\ ret = numNodos - 1

\* ---------------------------------------------------------------- C18
\* C18: what an accepted call produces (the count returned, the tracker,
\* the activation vector, the partition of both structures and the value
\* of has_percolation()) is what the same call produces in the run that was
\* never handed the rejected calls.
C18_RejectedCallsLeaveNoTrace ==
    lastOp = "accepted" =>
        /\ ret = twin.ret
        /\ Smax = twin.Smax
        /\ nodoActivo = twin.nodoActivo
        /\ SamePartition(uf, twin.uf)
        /\ SamePartition(uf_aux, twin.uf_aux)
        /\ HasPercolation(uf_aux, numNodos) <=> HasPercolation(twin.uf_aux, numNodos)

\* An accepted call that came after a rejected one and after a merge.
C18_Witness ==
    /\ lastOp = "accepted"
    /\ hist.rejected
    /\ hist.merges >= 1
    /\ DblLt(Zero, current_p)

\* ---------------------------------------------------------------- C19
\* What unite(a, b) must have made of structure d, given its result e.
UniteContract(d, e, a, b) ==
    LET ra == FindRoot(d.parent, a)
        rb == FindRoot(d.parent, b)
    IN  IF ra = rb
        THEN /\ SamePartition(d, e)
             /\ \A x \in DOMAIN d.parent : GetSize(e, x) = GetSize(d, x)
        ELSE \E small \in {ra, rb} : \E big \in {ra, rb} \ {small} :
                /\ d.size[small] <= d.size[big]
                /\ e.parent[small] = big
                /\ e.parent[big] = big
                /\ e.size[big] = d.size[ra] + d.size[rb]
                /\ \A x \in DOMAIN d.parent :
                      IF FindRoot(d.parent, x) \in {ra, rb}
                      THEN FindRoot(e.parent, x) = big
                      ELSE /\ FindRoot(e.parent, x) = FindRoot(d.parent, x)
                           /\ GetSize(e, x) = GetSize(d, x)

\* C19: on every structure reached, unite(a, b) of two elements under one
\* root changes no root and no component size, so a repeated unite changes
\* nothing more; otherwise the root of the component that is not the larger
\* becomes a child of the other root, whose size becomes the sum, and every
\* element outside the two components keeps its root and component size.
C19_UniteContract ==
    \A a, b \in Nodes(numNodos) :
        /\ UniteContract(uf, Unite(uf, a, b), a, b)
        /\ UniteContract(Unite(uf, a, b), Unite(Unite(uf, a, b), a, b), a, b)

\* unite has built a component of three or more with an element two links
\* below the root.
C19_Witness ==
    /\ lastOp = "unite"
    /\ \E r \in Roots(uf) : uf.size[r] >= 3
    /\ \E x \in Nodes(numNodos) : uf.parent[uf.parent[x]] # uf.parent[x]

\* ---------------------------------------------------------------- C20
\* C20: on every structure reached, find(x) ends at the root of x, leaves
\* every element that was on the way from x to the root directly below the
\* root, and changes no element's root and no size; and the structure that
\* was handed find calls between its unite calls has the same root, the
\* same get_size for every element and the same component count as the one
\* handed the unite calls alone.
C20_FindCompressesOnly ==
    /\ \A x \in Nodes(numNodos) :
          LET r == FindRoot(uf.parent, x)
              e == Find(uf, x)
          IN  /\ uf.parent[r] = r
              /\ r \in PathTo(uf.parent, x)
              /\ \A y \in PathTo(uf.parent, x) : e.parent[y] = r
              /\ SamePartition(e, uf)
              /\ e.size = uf.size
    /\ SamePartition(uf, twin.uf)
    /\ \A x \in Nodes(numNodos) : GetSize(uf, x) = GetSize(twin.uf, x)
    /\ Ncc(uf, numNodos) = Ncc(twin.uf, numNodos)

\* A find has compressed a path that the run without find calls still has,
\* and unite calls followed it.
C20_Witness ==
    /\ lastOp = "unite"
    /\ \E x \in Nodes(numNodos) :
          /\ twin.uf.parent[twin.uf.parent[x]] # twin.uf.parent[x]
          /\ uf.parent[x] = FindRoot(uf.parent, x)
    /\ Cardinality(Roots(uf)) = 1

====
